---- MODULE Spec2Model ----
(***************************************************************************)
(* A model of the manga collection tracker of src/app.py: the title        *)
(* normaliser (normalize_title, extract_volume), the in-memory collection  *)
(* st.session_state.manga_data with the handlers that change it (bulk      *)
(* range registration, next-volume registration, the edit dialog, the      *)
(* table editors) and the persistence routine save_data.                   *)
(*                                                                         *)
(* A title is a sequence of characters.  A character is a one-letter       *)
(* string; the characters outside ASCII are written by name:               *)
(*   "DAI" U+7B2C (ordinal prefix), "KAN" U+5DFB (volume), "SHU" U+96C6    *)
(*   (collection), "FW1" U+FF11 (full-width digit one), "FWLP"/"FWRP"      *)
(*   U+FF08/U+FF09 (full-width parentheses), "ISP" U+3000 (ideographic     *)
(*   space).                                                               *)
(***************************************************************************)
EXTENDS Integers, Sequences, FiniteSets, TLC

(***************************************************************************)
(* Characters and the classes the regular expressions use.                 *)
(***************************************************************************)

\* unicodedata.normalize('NFKC', c) for one character
NFKCChar(c) ==
    CASE c = "FW1"  -> "1"
      [] c = "FWLP" -> "("
      [] c = "FWRP" -> ")"
      [] c = "ISP"  -> " "
      [] OTHER      -> c

\* unicodedata.normalize('NFKC', title)
NFKC(s) == [i \in 1..Len(s) |-> NFKCChar(s[i])]

\* \s of the re module
IsSpace(c) == c \in {" ", "ISP"}

\* \d of the re module (a full-width digit is a Unicode decimal digit too)
IsDigit(c) == c \in {"0", "1", "2", "3", "4", "5", "6", "7", "8", "9", "FW1"}

\* the value int() gives one decimal digit
DigitVal(c) ==
    CASE c = "0" -> 0 [] c = "1" -> 1 [] c = "2" -> 2 [] c = "3" -> 3
      [] c = "4" -> 4 [] c = "5" -> 5 [] c = "6" -> 6 [] c = "7" -> 7
      [] c = "8" -> 8 [] c = "9" -> 9 [] c = "FW1" -> 1

\* case folding of re.IGNORECASE, for the letters of the patterns
Fold(c) ==
    CASE c = "V" -> "v" [] c = "O" -> "o" [] c = "L" -> "l"
      [] c = "U" -> "u" [] c = "M" -> "m" [] c = "E" -> "e"
      [] OTHER   -> c

\* int(digits): the value of a non-empty string of decimal digits
RECURSIVE ToInt(_)
ToInt(ds) ==
    IF ds = <<>> THEN 0
    ELSE 10 * ToInt(SubSeq(ds, 1, Len(ds) - 1)) + DigitVal(ds[Len(ds)])

\* the position after the longest run of whitespace starting at i (\s*)
SkipSpaces(s, i) ==
    CHOOSE j \in i..(Len(s) + 1) :
        /\ \A k \in i..(j - 1) : IsSpace(s[k])
        /\ (j = Len(s) + 1 \/ ~IsSpace(s[j]))

\* the position after the longest run of digits starting at i (\d*)
SkipDigits(s, i) ==
    CHOOSE j \in i..(Len(s) + 1) :
        /\ \A k \in i..(j - 1) : IsDigit(s[k])
        /\ (j = Len(s) + 1 \/ ~IsDigit(s[j]))

\* whether the literal lit occurs in s at position i, ignoring case
LitAt(s, i, lit) ==
    /\ i + Len(lit) - 1 <= Len(s)
    /\ \A k \in 1..Len(lit) : Fold(s[i + k - 1]) = Fold(lit[k])

(***************************************************************************)
(* normalize_title                                                         *)
(***************************************************************************)

\* The nine removal patterns, in the order of the list: each is
\*   \s* open [ \.? \s* ] \d+ close
\* with the bracketed part present in the two Latin marker patterns only.
StripPatterns ==
    << [open |-> <<"(">>, dot |-> FALSE, close |-> <<")">>],
       [open |-> <<"[">>, dot |-> FALSE, close |-> <<"]">>],
       [open |-> <<"<">>, dot |-> FALSE, close |-> <<">">>],
       [open |-> <<"DAI">>, dot |-> FALSE, close |-> <<"KAN">>],
       [open |-> <<"DAI">>, dot |-> FALSE, close |-> <<"SHU">>],
       [open |-> <<>>, dot |-> FALSE, close |-> <<"KAN">>],
       [open |-> <<"V", "o", "l">>, dot |-> TRUE, close |-> <<>>],
       [open |-> <<"V", "o", "l", "u", "m", "e">>, dot |-> TRUE, close |-> <<>>],
       [open |-> <<"#">>, dot |-> FALSE, close |-> <<>>] >>

\* The match of removal pattern p that starts at position i of s: the
\* position after the match, or 0 when the pattern does not match there.
StripMatch(p, s, i) ==
    LET a == SkipSpaces(s, i)
        b == a + Len(p.open)
        c == IF p.dot /\ LitAt(s, a, p.open)
             THEN SkipSpaces(s, IF b <= Len(s) /\ s[b] = "." THEN b + 1 ELSE b)
             ELSE b
        d == IF c <= Len(s) + 1 THEN SkipDigits(s, c) ELSE c
    IN  IF LitAt(s, a, p.open) /\ d > c /\ LitAt(s, d, p.close)
        THEN d + Len(p.close)
        ELSE 0

\* re.sub(pattern, ' ', s): every leftmost non-overlapping match, from
\* position i on, replaced by one space
RECURSIVE StripFrom(_, _, _)
StripFrom(p, s, i) ==
    IF i > Len(s) THEN <<>>
    ELSE LET e == StripMatch(p, s, i)
         IN  IF e > 0 THEN <<" ">> \o StripFrom(p, s, e)
             ELSE <<s[i]>> \o StripFrom(p, s, i + 1)

\* the loop over patterns: one re.sub per pattern, in order, once
RECURSIVE ApplyPatterns(_, _)
ApplyPatterns(ps, s) ==
    IF ps = <<>> THEN s
    ELSE ApplyPatterns(Tail(ps), StripFrom(Head(ps), s, 1))

\* the match of \s+\d+(\s|$) at position i: the position after it, or 0
BareMatch(s, i) ==
    LET a == SkipSpaces(s, i)
        d == SkipDigits(s, a)
    IN  IF a > i /\ d > a
        THEN IF d = Len(s) + 1 THEN d
             ELSE IF IsSpace(s[d]) THEN d + 1 ELSE 0
        ELSE 0

\* re.sub(r'\s+\d+(\s|$)', ' ', s)
RECURSIVE BareFrom(_, _)
BareFrom(s, i) ==
    IF i > Len(s) THEN <<>>
    ELSE LET e == BareMatch(s, i)
         IN  IF e > 0 THEN <<" ">> \o BareFrom(s, e)
             ELSE <<s[i]>> \o BareFrom(s, i + 1)

\* re.sub(r'\s+', ' ', s)
RECURSIVE Collapse(_, _)
Collapse(s, i) ==
    IF i > Len(s) THEN <<>>
    ELSE IF IsSpace(s[i]) THEN <<" ">> \o Collapse(s, SkipSpaces(s, i))
         ELSE <<s[i]>> \o Collapse(s, i + 1)

\* str.strip()
Strip(s) ==
    LET a == SkipSpaces(s, 1)
        NonSpace == {k \in 1..Len(s) : ~IsSpace(s[k])}
    IN  IF NonSpace = {} THEN <<>>
        ELSE SubSeq(s, a, CHOOSE k \in NonSpace : \A m \in NonSpace : m <= k)

normalize_title(title) ==
    IF title = <<>> THEN <<>>
    ELSE Strip(Collapse(BareFrom(ApplyPatterns(StripPatterns, NFKC(title)), 1), 1))

(***************************************************************************)
(* extract_volume                                                          *)
(***************************************************************************)

\* The match of extraction pattern k (1..6, the order of the list) that
\* starts at position i of s: [hit, grp] with grp the digits group 1
\* captured, and has = FALSE for the pattern that has no group.
NoMatch == [hit |-> FALSE, has |-> FALSE, grp |-> <<>>]

Brackets == {<<"(", ")">>, <<"(", "]">>, <<"(", ">">>,
             <<"[", ")">>, <<"[", "]">>, <<"[", ">">>,
             <<"<", ")">>, <<"<", "]">>, <<"<", ">">>}

VolMatch(k, s, i) ==
    CASE k = 1 ->  \* DAI(\d+)KAN
           LET d == SkipDigits(s, i + 1)
           IN  IF s[i] = "DAI" /\ d > i + 1 /\ LitAt(s, d, <<"KAN">>)
               THEN [hit |-> TRUE, has |-> TRUE, grp |-> SubSeq(s, i + 1, d - 1)]
               ELSE NoMatch
      [] k = 2 ->  \* \d+KAN, no group
           LET d == SkipDigits(s, i)
           IN  IF d > i /\ LitAt(s, d, <<"KAN">>)
               THEN [hit |-> TRUE, has |-> FALSE, grp |-> <<>>]
               ELSE NoMatch
      [] k = 3 ->  \* Vol\.?(\d+)
           LET b == i + 3
               c == IF b <= Len(s) /\ s[b] = "." THEN b + 1 ELSE b
               d == IF c <= Len(s) + 1 THEN SkipDigits(s, c) ELSE c
           IN  IF LitAt(s, i, <<"V", "o", "l">>) /\ d > c
               THEN [hit |-> TRUE, has |-> TRUE, grp |-> SubSeq(s, c, d - 1)]
               ELSE NoMatch
      [] k = 4 ->  \* [\(\[\<](\d+)[\)\]\>]
           LET d == SkipDigits(s, i + 1)
           IN  IF /\ d > i + 1
                  /\ d <= Len(s)
                  /\ <<s[i], s[d]>> \in Brackets
               THEN [hit |-> TRUE, has |-> TRUE, grp |-> SubSeq(s, i + 1, d - 1)]
               ELSE NoMatch
      [] k = 5 ->  \* \s(\d+)\s
           LET d == SkipDigits(s, i + 1)
           IN  IF IsSpace(s[i]) /\ d > i + 1 /\ d <= Len(s) /\ IsSpace(s[d])
               THEN [hit |-> TRUE, has |-> TRUE, grp |-> SubSeq(s, i + 1, d - 1)]
               ELSE NoMatch
      [] k = 6 ->  \* (\d+)$
           LET d == SkipDigits(s, i)
           IN  IF d > i /\ d = Len(s) + 1
               THEN [hit |-> TRUE, has |-> TRUE, grp |-> SubSeq(s, i, d - 1)]
               ELSE NoMatch

\* re.search(pattern k, s): the leftmost match, or NoMatch
VolSearch(k, s) ==
    LET At == {i \in 1..Len(s) : VolMatch(k, s, i).hit}
    IN  IF At = {} THEN NoMatch
        ELSE VolMatch(k, s, CHOOSE i \in At : \A j \in At : i <= j)

\* The result of a call: the integer returned, or raised = TRUE when the
\* call ends with an exception (match.group(1) of a pattern without groups
\* raises IndexError).
Returned(n) == [raised |-> FALSE, value |-> n]
Raised == [raised |-> TRUE, value |-> 0]

\* the loop over the patterns from pattern k on
RECURSIVE VolFrom(_, _)
VolFrom(k, s) ==
    IF k > 6 THEN Returned(1)
    ELSE LET m == VolSearch(k, s)
         IN  IF m.hit
             THEN IF m.has THEN Returned(ToInt(m.grp)) ELSE Raised
             ELSE VolFrom(k + 1, s)

extract_volume(title) ==
    IF title = <<>> THEN Returned(1) ELSE VolFrom(1, NFKC(title))

(***************************************************************************)
(* The state of a session.                                                 *)
(***************************************************************************)

VARIABLES
    manga_data,        \* st.session_state.manga_data: the collection, a list
    clock,             \* the second datetime.now() reads
    file,              \* the contents of DATA_FILE on the local disk
    remote,            \* the contents of DATA_FILE in the GitHub repository
    github,            \* whether GITHUB_TOKEN and REPO_NAME are configured
    op,                \* the handler that ran last
    saved,             \* the collection the last save_data call serialised
    saves,             \* the number of save_data calls of the last handler
    save_result,       \* how the last handler's save_data call ended
    reported,          \* whether the last handler showed st.error
    crashed,           \* whether the last handler ended by an exception
    title,             \* text functions: the title given to the two functions
    series_key,        \* text functions: normalize_title(title)
    rekey,             \* text functions: normalize_title(series_key)
    vol,               \* text functions: the result of extract_volume(title)
    step               \* text functions: how far the calls have got

appvars == <<manga_data, clock, file, remote, github, op, saved, saves,
             save_result, reported, crashed>>
textvars == <<title, series_key, rekey, vol, step>>
vars == <<manga_data, clock, file, remote, github, op, saved, saves,
          save_result, reported, crashed,
          title, series_key, rekey, vol, step>>

(***************************************************************************)
(* Bounds and the inputs the environment supplies.                         *)
(***************************************************************************)

\* the longest collection a run builds
MaxRecords == 2
\* the greatest volume a next-volume registration reaches
MaxVolume == 3
\* the last second of the clock
MaxClock == 1
\* the most words of a title handed to the text functions
MaxWords == 3

\* The results the catalogue search may return: title, cover, author
\* (link is carried like image, publisher like author).
Catalog ==
    { [some |-> TRUE, title |-> <<"F", " ", "2", " ", "1">>, image |-> "", author |-> "a1"],
      [some |-> TRUE, title |-> <<"F", "2", "KAN">>, image |-> "img", author |-> "a2"] }

\* None: no selected book, a search that found nothing, the empty meta dict
NoBook == [some |-> FALSE, title |-> <<>>, image |-> "", author |-> ""]

\* what the user may type into the title field of the edit dialog or table
TitleInputs == { <<>> }
\* what the user may enter as volume (number_input and NumberColumn have no minimum)
VolumeInputs == {0}
\* the unread checkbox of the registration form as the user may leave it
UnreadInputs == {FALSE}
\* the cover the next-volume lookup may return ("" when it finds nothing)
ImageInputs == {"img"}

\* how a save_data call can end
SaveResults == {"ok", "local_fail", "put_raise", "put_status"}

\* the display title of the group whose key is empty
NoTitle == <<"N", "o", " ", "T", "i", "t", "l", "e">>

(***************************************************************************)
(* The titles the text functions are checked on: up to MaxWords words,     *)
(* each joined to what precedes it directly or by one space.               *)
(***************************************************************************)

Words ==
    { <<"F">>, <<"1">>, <<"2">>, <<"FW1">>,
      <<"(", "3", ")">>,
      <<"DAI", "3", "KAN">>,
      <<"3", "KAN">>,
      <<"V", "o", "l", ".", "3">>,
      <<"v", "o", "l", " ", "3">>,
      <<"V", "o", "l", "u", "m", "e", " ", "3">>,
      <<"#", "3">> }

Separators == { <<>>, <<" ">> }

RECURSIVE TitlesUpTo(_)
TitlesUpTo(n) ==
    IF n = 0 THEN { <<>> }
    ELSE LET T == TitlesUpTo(n - 1)
         IN  T \cup { t \o sep \o w : t \in T, sep \in Separators, w \in Words }

Titles == TitlesUpTo(MaxWords)

(***************************************************************************)
(* Records, ids and the series groups of the shelf.                        *)
(*                                                                         *)
(* A record carries, beside the fields of the dict, the column series_key  *)
(* that the shelf adds to its frame (df['series_key'] =                    *)
(* df['title'].apply(normalize_title)): it is computed by normalize_title  *)
(* whenever a title is written, which is the value the next rendering      *)
(* computes from that title.                                               *)
(***************************************************************************)

\* An id is a string: the 14 digits of strftime("%Y%m%d%H%M%S"), followed by
\* str(v) in a bulk registration and by nothing in a next-volume
\* registration.  suf = 0 stands for the empty suffix.
NewId(ts, suf) == [ts |-> ts, suf |-> suf]

\* string order of two ids (suf stays below 10)
IdLeq(a, b) == a.ts < b.ts \/ (a.ts = b.ts /\ a.suf <= b.suf)

\* the greatest element of a non-empty set of integers
Max(S) == CHOOSE x \in S : \A y \in S : y <= x

\* the rows of data whose series_key is k, in the order of the collection
GroupRows(data, k) == SelectSeq(data, LAMBDA d : d.series_key = k)

\* group.loc[group['volume'].idxmin()]: the first row of the least volume
MinVolRow(rows) ==
    rows[CHOOSE i \in 1..Len(rows) :
            /\ \A j \in 1..Len(rows) : rows[i].volume <= rows[j].volume
            /\ \A j \in 1..(i - 1) : rows[j].volume > rows[i].volume]

\* group.loc[group['volume'].idxmax()]: the first row of the greatest volume
LatestRow(rows) ==
    rows[CHOOSE i \in 1..Len(rows) :
            /\ \A j \in 1..Len(rows) : rows[i].volume >= rows[j].volume
            /\ \A j \in 1..(i - 1) : rows[j].volume < rows[i].volume]

\* the keys df.groupby('series_key') iterates over
SeriesKeys(data) == { data[i].series_key : i \in 1..Len(data) }

\* one element of series_groups
SeriesGroup(data, k) ==
    LET rows == GroupRows(data, k)
    IN  [title   |-> IF k = <<>> THEN NoTitle ELSE k,
         image   |-> MinVolRow(rows).image,
         max_vol |-> Max({rows[i].volume : i \in 1..Len(rows)}),
         meta    |-> LatestRow(rows)]

(***************************************************************************)
(* save_data                                                               *)
(***************************************************************************)

\* the contents of a store holding the JSON of data
Stored(data) == [intact |-> TRUE, data |-> data]
\* a file that open(..., 'w') emptied and that was not written
Truncated == [intact |-> FALSE, data |-> <<>>]

\* The stores hold the collection.  A save is taken to fail only then:
\* failures do not follow one another.
UpToDate ==
    /\ file = Stored(manga_data)
    /\ github => remote = Stored(manga_data)

\* the handler name runs, within the second
Handler(name) ==
    /\ op' = name
    /\ UNCHANGED <<clock, github>>
    /\ UNCHANGED textvars

\* save_data(data) ending as result says:
\*   "local_fail"  the local write raises, and the exception leaves the handler
\*   "put_raise"   requests.put raises, which st.error reports
\*   "put_status"  requests.put returns a response that is not a success
\*   "ok"          every write succeeds
save_data(data, result) ==
    /\ result \in (IF github THEN SaveResults ELSE {"ok", "local_fail"})
    /\ result # "ok" => UpToDate
    /\ saved' = data
    /\ saves' = 1
    /\ save_result' = result
    /\ IF result = "local_fail"
       THEN /\ file' \in {file, Truncated}
            /\ remote' = remote
            /\ reported' = FALSE
            /\ crashed' = TRUE
       ELSE /\ file' = Stored(data)
            /\ remote' = IF github /\ result = "ok" THEN Stored(data) ELSE remote
            /\ reported' = (result = "put_raise")
            /\ crashed' = FALSE

\* a handler that does not call save_data
NoSave ==
    /\ saves' = 0
    /\ save_result' = "none"
    /\ reported' = FALSE
    /\ UNCHANGED <<saved, file, remote>>

(***************************************************************************)
(* The registration form: search, selection, bulk registration.            *)
(*                                                                         *)
(* selected_book, series_max_vol and series_meta_info are written by the   *)
(* selection and read by the form only.  They are not kept in the state:   *)
(* Selection is what a search and a selection leave in them, and the       *)
(* submit of the form draws one.                                           *)
(***************************************************************************)

\* get_series_stats(series_title, app_id).  The catalogue answers the
\* newest-first search by titles on which extract_volume gives volumes (the
\* set of its results, raised ones included) and the oldest-first search by
\* first (or by nothing).
get_series_stats(series_title, volumes, first) ==
    IF series_title = <<>>
    THEN [raised |-> FALSE, max_vol |-> 1, info |-> NoBook]
    ELSE IF \E v \in volumes : v.raised
    THEN [raised |-> TRUE, max_vol |-> 1, info |-> NoBook]
    ELSE [raised |-> FALSE,
          max_vol |-> Max({1} \cup {v.value : v \in volumes}),
          info |-> first]

\* the candidates of a search, each with the series_title the form computes
\* from it when it is selected and the key the shelf computes from that
Candidates ==
    { [book |-> p[1], series_title |-> p[2], series_key |-> normalize_title(p[2])] :
        p \in { <<c, normalize_title(c.title)>> : c \in Catalog } }

\* what extract_volume gives on the titles of each newest-first answer
LatestVolumes ==
    { { extract_volume(c.title) : c \in latest } : latest \in SUBSET Catalog }

\* What the search and the selection of the candidate cand leave in the
\* session state: the search resets series_max_vol to 1, the selection
\* stores the candidate and, unless get_series_stats raises, its statistics;
\* meta is series_meta_info as it was before.
Selection(cand, stats, meta) ==
    [selected_book    |-> cand.book,
     series_title     |-> cand.series_title,
     series_key       |-> cand.series_key,
     series_max_vol   |-> IF stats.raised THEN 1 ELSE stats.max_vol,
     series_meta_info |-> IF stats.raised THEN meta
                          ELSE IF stats.info.some THEN stats.info ELSE cand.book,
     raised           |-> stats.raised]

\* every state a search and a selection can leave
Selections ==
    UNION { { Selection(cand, get_series_stats(cand.series_title, volumes, first), NoBook) :
                cand \in Candidates, first \in Catalog \cup {NoBook} } :
            volumes \in LatestVolumes }

\* the handler of the selection
select_series(sel) ==
    /\ crashed' = sel.raised
    /\ Handler("select")
    /\ NoSave
    /\ UNCHANGED manga_data

\* the check of the loop body: a record of this title and volume exists
Exists(data, series_title, v) ==
    \E i \in 1..Len(data) : data[i].title = series_title /\ data[i].volume = v

\* new_d of the loop body
new_d(series_title, key, v, meta, is_unread, ts) ==
    [id |-> NewId(ts, v), title |-> series_title, volume |-> v,
     status |-> "own", my_score |-> 0, is_unread |-> is_unread,
     image |-> meta.image, author |-> meta.author,
     series_key |-> key]

\* the loop for v in range(1, owned_vol + 1), from volume v on
RECURSIVE BulkLoop(_, _, _, _, _)
BulkLoop(data, template, series_title, v, owned_vol) ==
    IF v > owned_vol THEN data
    ELSE BulkLoop(IF Exists(data, series_title, v) THEN data
                  ELSE Append(data, [template EXCEPT !.id = NewId(@.ts, v), !.volume = v]),
                  template, series_title, v + 1, owned_vol)

\* the submit of the form bulk_reg, shown for the selection sel
bulk_reg(sel, owned_vol, is_unread, result) ==
    /\ owned_vol \in 1..Max({sel.series_max_vol, 2})
    /\ LET series_title == sel.series_title
           data == BulkLoop(manga_data,
                            new_d(series_title, sel.series_key, 0, sel.series_meta_info,
                                  is_unread, clock),
                            series_title, 1, owned_vol)
       IN  /\ Len(data) <= MaxRecords
           /\ manga_data' = data
           /\ save_data(data, result)
    /\ Handler("bulk_reg")

(***************************************************************************)
(* The shelf: next-volume registration and the edit dialog.                *)
(***************************************************************************)

\* new_entry of the next-volume button of a group
new_entry(series, image, ts) ==
    [id |-> NewId(ts, 0), title |-> series.title, volume |-> series.max_vol + 1,
     status |-> "want", my_score |-> 0, is_unread |-> TRUE,
     image |-> image, author |-> series.meta.author,
     series_key |-> normalize_title(series.title)]

\* the next-volume button of the group of key k; the lookup returns image
next_volume(k, image, result) ==
    /\ k \in SeriesKeys(manga_data)
    /\ Len(manga_data) < MaxRecords
    /\ SeriesGroup(manga_data, k).max_vol < MaxVolume
    /\ manga_data' = Append(manga_data, new_entry(SeriesGroup(manga_data, k), image, clock))
    /\ save_data(manga_data', result)
    /\ Handler("next_volume")

\* the loop of the update button: the first record of the id is changed
\* (status, my_score and is_unread are written as the dialog showed them)
EditFirst(data, id, new_title, new_vol) ==
    LET At == {i \in 1..Len(data) : data[i].id = id}
        first == CHOOSE i \in At : \A j \in At : i <= j
    IN  IF At = {} THEN data
        ELSE [data EXCEPT ![first] =
                 [@ EXCEPT !.title = new_title, !.volume = new_vol,
                           !.series_key = IF new_title = data[first].title THEN @
                                          ELSE normalize_title(new_title)]]

\* the update button of the dialog opened on row i
edit_submit(i, new_title, new_vol, result) ==
    /\ i \in 1..Len(manga_data)
    /\ manga_data' = EditFirst(manga_data, manga_data[i].id, new_title, new_vol)
    /\ save_data(manga_data', result)
    /\ Handler("edit_submit")

\* the list the delete button builds
DeleteById(data, id) == SelectSeq(data, LAMBDA d : d.id # id)

\* the delete button with the call of save_data left out
edit_delete_unsaved(i, result) ==
    /\ i \in 1..Len(manga_data)
    /\ manga_data' = DeleteById(manga_data, manga_data[i].id)
    /\ NoSave
    /\ crashed' = FALSE
    /\ Handler("edit_delete")

\* the delete button of the dialog opened on row i
edit_delete(i, result) ==
    /\ i \in 1..Len(manga_data)
    /\ manga_data' = DeleteById(manga_data, manga_data[i].id)
    /\ save_data(manga_data', result)
    /\ Handler("edit_delete")

(***************************************************************************)
(* The table editors and update_data.                                      *)
(***************************************************************************)

\* the orders of the numbers 1..n
Orders(n) == { p \in [1..n -> 1..n] : \A i, j \in 1..n : i # j => p[i] # p[j] }

\* The frames a data editor may show.  "e_new": every record, sorted by id
\* descending, equal ids in either order (the sort is not stable).  "e_un":
\* the records wanted or unread, sorted by release date (not modelled, so
\* any order).
Views(mode, data) ==
    LET rows == IF mode = "e_new" THEN data
                ELSE SelectSeq(data, LAMBDA d : d.status = "want" \/ d.is_unread)
        n == Len(rows)
    IN  { [i \in 1..n |-> rows[p[i]]] :
            p \in { q \in Orders(n) :
                      mode = "e_new" =>
                          \A i, j \in 1..n : i < j => IdLeq(rows[q[j]].id, rows[q[i]].id) } }

\* the columns of a data editor the user changes (status, my_score and
\* is_unread are editable too; the dialog changes those)
EditableColumns == {"title", "volume"}

\* the values a user may give a cell of the column
CellValues(field) ==
    CASE field = "title"  -> TitleInputs
      [] field = "volume" -> VolumeInputs

\* row with the cell of the column changed
EditCell(row, field, value) ==
    IF field = "title"
    THEN [row EXCEPT !.title = value, !.series_key = normalize_title(value)]
    ELSE [row EXCEPT ![field] = value]

\* the ids of data in the order a dict first meets them
RECURSIVE DistinctIds(_)
DistinctIds(data) ==
    IF data = <<>> THEN <<>>
    ELSE LET init == DistinctIds(SubSeq(data, 1, Len(data) - 1))
             id == data[Len(data)].id
         IN  IF \E i \in 1..Len(init) : init[i] = id THEN init ELSE Append(init, id)

\* the last element of list whose id is id
LastWith(list, id) ==
    list[Max({i \in 1..Len(list) : list[i].id = id})]

\* update_data(edited_df): the collection it leaves in the session state
update_data(data, updated_list) ==
    LET ids == DistinctIds(data)
    IN  [n \in 1..Len(ids) |->
            IF \E i \in 1..Len(updated_list) : updated_list[i].id = ids[n]
            THEN LastWith(updated_list, ids[n])
            ELSE LastWith(data, ids[n])]

\* a cell of row r of the frame view changed in a data editor
table_edit(view, r, field, value, result) ==
    /\ r \in 1..Len(view)
    /\ view[r][field] # value
    /\ manga_data' = update_data(manga_data, [view EXCEPT ![r] = EditCell(@, field, value)])
    /\ save_data(manga_data', result)
    /\ Handler("table_edit")

(***************************************************************************)
(* The session.                                                            *)
(***************************************************************************)

\* a second passes
Tick ==
    /\ clock < MaxClock
    /\ clock' = clock + 1
    /\ UNCHANGED <<manga_data, file, remote, github, op, saved, saves,
                   save_result, reported, crashed>>
    /\ UNCHANGED textvars

\* the text functions not called
TextIdle ==
    /\ title = <<>>
    /\ series_key = <<>>
    /\ rekey = <<>>
    /\ vol = Returned(1)
    /\ step = "idle"

\* the session state after the first run of the script, nothing stored yet
AppInit ==
    /\ manga_data = <<>>
    /\ clock = 0
    /\ file = Stored(<<>>)
    /\ remote = Stored(<<>>)
    /\ op = "none"
    /\ saved = <<>>
    /\ saves = 0
    /\ save_result = "none"
    /\ reported = FALSE
    /\ crashed = FALSE

Init ==
    /\ AppInit
    /\ github \in BOOLEAN
    /\ TextIdle

\* the session whose saves succeed
Next ==
    \/ Tick
    \/ \E sel \in Selections : select_series(sel)
    \/ \E sel \in Selections, owned_vol \in 1..MaxRecords, is_unread \in UnreadInputs :
          bulk_reg(sel, owned_vol, is_unread, "ok")
    \/ \E k \in SeriesKeys(manga_data), image \in ImageInputs :
          next_volume(k, image, "ok")
    \/ \E i \in 1..Len(manga_data) :
          \E new_title \in TitleInputs \cup {manga_data[i].title},
             new_vol \in VolumeInputs \cup {manga_data[i].volume} :
             edit_submit(i, new_title, new_vol, "ok")
    \/ \E i \in 1..Len(manga_data) : edit_delete(i, "ok")
    \/ \E mode \in {"e_new", "e_un"}, field \in EditableColumns :
          \E view \in Views(mode, manga_data), r \in 1..Len(manga_data),
             value \in CellValues(field) :
             table_edit(view, r, field, value, "ok")

Spec == Init /\ [][Next]_vars

\* The session whose saves may fail, within one second and with the titles
\* left as they were registered.
FaultNext ==
    \/ \E sel \in Selections : select_series(sel)
    \/ \E sel \in Selections, owned_vol \in 1..MaxRecords, is_unread \in UnreadInputs,
          result \in SaveResults :
          bulk_reg(sel, owned_vol, is_unread, result)
    \/ \E k \in SeriesKeys(manga_data), image \in ImageInputs, result \in SaveResults :
          next_volume(k, image, result)
    \/ \E i \in 1..Len(manga_data), result \in SaveResults :
          \E new_vol \in VolumeInputs \cup {manga_data[i].volume} :
             edit_submit(i, manga_data[i].title, new_vol, result)
    \/ \E i \in 1..Len(manga_data), result \in SaveResults : edit_delete(i, result)
    \/ \E mode \in {"e_new", "e_un"}, result \in SaveResults :
          \E view \in Views(mode, manga_data), r \in 1..Len(manga_data),
             value \in VolumeInputs :
             table_edit(view, r, "volume", value, result)

FaultSpec == Init /\ [][FaultNext]_vars

(***************************************************************************)
(* The text functions applied to every title of Titles.                    *)
(***************************************************************************)

TextInit ==
    /\ AppInit
    /\ github = FALSE
    /\ title \in Titles
    /\ series_key = <<>>
    /\ rekey = <<>>
    /\ vol = Returned(1)
    /\ step = "input"

Normalize ==
    /\ step = "input"
    /\ series_key' = normalize_title(title)
    /\ step' = "normalized"
    /\ UNCHANGED <<title, rekey, vol>>
    /\ UNCHANGED appvars

Renormalize ==
    /\ step = "normalized"
    /\ rekey' = normalize_title(series_key)
    /\ step' = "renormalized"
    /\ UNCHANGED <<title, series_key, vol>>
    /\ UNCHANGED appvars

Extract ==
    /\ step = "renormalized"
    /\ vol' = extract_volume(title)
    /\ step' = "extracted"
    /\ UNCHANGED <<title, series_key, rekey>>
    /\ UNCHANGED appvars

TextNext == Normalize \/ Renormalize \/ Extract

TextSpec == TextInit /\ [][TextNext]_vars

(***************************************************************************)
(* Properties of the collection, checked on Spec.                          *)
(***************************************************************************)

\* the positions of the collection
Rows == 1..Len(manga_data)

\* the column series_key holds normalize_title of the title of its record
KeyColumn == \A i \in Rows : manga_data[i].series_key = normalize_title(manga_data[i].title)

\* C1: the collection holds at most one record per pair
\* (normalize_title(record.title), record.volume), whatever sequence of bulk
\* registrations, next-volume registrations, dialog edits, deletes and table
\* edits produced it.
C1_OnePerSeriesVolume ==
    \A i, j \in Rows :
        i # j => ~ /\ manga_data[i].series_key = manga_data[j].series_key
                   /\ manga_data[i].volume = manga_data[j].volume

\* C2: no two records of the collection share an id, registrations of the
\* same clock second included.
C2_UniqueIds ==
    \A i, j \in Rows : i # j => manga_data[i].id # manga_data[j].id

\* the records a bulk registration step appends
Appended == { manga_data'[n] : n \in (Len(manga_data) + 1)..Len(manga_data') }

\* a record of the key and volume of d is in the collection
Present(d) ==
    \E i \in Rows : /\ manga_data[i].series_key = d.series_key
                    /\ manga_data[i].volume = d.volume

\* C3: range registration never adds a volume that is present, a volume
\* counting as present when a record's normalized series key and volume
\* match; registering a range again adds only the volumes beyond it.
C3_RangeIdempotent ==
    [][op' = "bulk_reg" => \A d \in Appended : ~Present(d)]_vars

\* C8: apart from a delete no handler decreases the number of records, and
\* a delete removes exactly the one record the user chose.
C8_OnlyDeleteRemoves ==
    [][/\ op' # "edit_delete" => Len(manga_data') >= Len(manga_data)
       /\ (op' = "edit_delete" /\ manga_data' # manga_data)
              => Len(manga_data') = Len(manga_data) - 1]_vars

\* C9: every record of the collection has volume >= 1.
C9_PositiveVolumes == \A i \in Rows : manga_data[i].volume >= 1

\* the member of least volume of the group of key k
MinMember(k) == MinVolRow(GroupRows(manga_data, k))

\* C11: the cover and the author (link and publisher alike) of every series
\* group are those of its member of least volume, the cover being empty
\* when that member has none, and that author is the one a next-volume
\* registration of the group copies into its record.
C11_RepresentativeFromMinVolume ==
    \A k \in SeriesKeys(manga_data) :
        LET series == SeriesGroup(manga_data, k)
        IN  /\ series.image = MinMember(k).image
            /\ series.meta.author = MinMember(k).author
            /\ \A image \in ImageInputs :
                  new_entry(series, image, clock).author = MinMember(k).author

\* the record a step appended last
Newest == manga_data'[Len(manga_data')]

\* C12: a next-volume registration appends exactly one record; for some
\* group of key k and greatest volume m it has volume m + 1, status want,
\* the unread flag and score 0, and after the step it is a member of the
\* group of key k, whose greatest volume is m + 1 (the group of the empty
\* key included).
C12_NextVolumeStaysInGroup ==
    [][(op' = "next_volume" /\ manga_data' # manga_data) =>
          /\ manga_data' = Append(manga_data, Newest)
          /\ \E k \in SeriesKeys(manga_data) :
                /\ Newest.volume = SeriesGroup(manga_data, k).max_vol + 1
                /\ Newest.status = "want"
                /\ Newest.is_unread
                /\ Newest.my_score = 0
                /\ Newest.series_key = k
                /\ SeriesGroup(manga_data', k).max_vol = Newest.volume]_vars

(***************************************************************************)
(* Properties of save_data, checked on FaultSpec.                          *)
(***************************************************************************)

\* the handlers that change the collection
Mutating == {"bulk_reg", "next_volume", "edit_submit", "edit_delete", "table_edit"}

\* C6: after every handler the collection last handed to save_data is the
\* collection in memory; a handler that changes the collection calls
\* save_data exactly once, a bulk registration once for the whole batch; and
\* a save that succeeded left the collection in the stores.
C6_PersistAfterMutate ==
    /\ saved = manga_data
    /\ op \in Mutating => saves = 1
    /\ save_result = "ok" =>
          /\ file = Stored(manga_data)
          /\ github => remote = Stored(manga_data)

\* C6 happens: a bulk registration added two volumes and saved them by one call
C6_BatchSaved ==
    /\ op = "bulk_reg"
    /\ Len(manga_data) = 2
    /\ manga_data[1].id = NewId(clock, 1)
    /\ manga_data[2].id = NewId(clock, 2)
    /\ saves = 1
    /\ saved = manga_data

\* C7: a save that fails (the local write, a remote PUT that raises, a remote
\* PUT answered by an error status) is reported to the user, the handler does
\* not crash, and the collection in memory keeps the mutation.
C7_FailureReported ==
    save_result \in {"local_fail", "put_raise", "put_status"} =>
        /\ reported
        /\ ~crashed
        /\ manga_data = saved

(***************************************************************************)
(* Properties of the text functions, checked on TextSpec.                  *)
(***************************************************************************)

\* C4: normalize_title(normalize_title(s)) = normalize_title(s) for every
\* title s.
C4_NormalizeIdempotent ==
    step \in {"renormalized", "extracted"} => rekey = series_key

\* C5: extract_volume raises on no title, and returns 1 on a title without
\* a digit.
C5_ExtractNeverRaises ==
    step = "extracted" =>
        /\ ~vol.raised
        /\ (\A i \in 1..Len(title) : ~IsDigit(title[i])) => vol.value = 1

\* the explicit volume markers of the titles of Titles, all of volume 3
ExplicitMarkers ==
    { <<"DAI", "3", "KAN">>,
      <<"V", "o", "l", ".", "3">>,
      <<"v", "o", "l", " ", "3">>,
      <<"V", "o", "l", "u", "m", "e", " ", "3">> }

\* s holds the marker w at position i, its number ending there
MarkerAt(s, i, w) ==
    /\ i + Len(w) - 1 <= Len(s)
    /\ SubSeq(s, i, i + Len(w) - 1) = w
    /\ i + Len(w) <= Len(s) => ~IsDigit(s[i + Len(w)])

\* s holds an explicit volume marker
HasExplicitMarker(s) ==
    \E w \in ExplicitMarkers, i \in 1..Len(s) : MarkerAt(s, i, w)

\* s holds a bare integer other than 3: digits between whitespace or the ends
HasBareInteger(s) ==
    \E i \in 1..Len(s), j \in 1..Len(s) :
        /\ i <= j
        /\ \A k \in i..j : IsDigit(s[k])
        /\ i > 1 => IsSpace(s[i - 1])
        /\ j < Len(s) => IsSpace(s[j + 1])
        /\ ToInt(SubSeq(NFKC(s), i, j)) # 3

\* C10: on a title with an explicit volume marker of number N and a bare
\* integer M, extract_volume returns N when it returns.
C10_MarkerBeforeBareInteger ==
    (step = "extracted" /\ HasExplicitMarker(title) /\ HasBareInteger(title) /\ ~vol.raised)
        => vol.value = 3

====
